---- MODULE Spec2Model ----
(***************************************************************************)
(* The museum pipeline: museums.py (the Harvester, which scrapes the       *)
(* listing into museums.json) and make_museums_map.py (the Enricher, which *)
(* geocodes the records through Nominatim with geocode_cache.json and      *)
(* hands the located ones to the map).  Both scripts are sequential; one   *)
(* run of one script is in progress at a time.                             *)
(***************************************************************************)
EXTENDS Integers, Sequences, FiniteSets, TLC

\* ------------------------------------------------------------------ bounds
\* Cards the listing shows once it is fully revealed.
NumCards == 2
\* Runs of either script that are started.
MaxRuns == 2
\* "Laad meer" pages the listing reveals before the button is gone.
MaxPages == 1

\* ------------------------------------------------------------- python data
\* Python's None, and a key a dict does not hold.
None == "None"
Absent == "absent"

\* A Python tuple (a, b) and a JSON list [a, b]: json.dump writes both as a
\* list, json.load reads a list.
Tuple(a, b) == <<"tuple", a, b>>
List(a, b) == <<"list", a, b>>

\* lat, lon = pair  (works on a tuple and on a list alike)
Lat(pair) == pair[2]
Lon(pair) == pair[3]

\* The empty dict {}.
EmptyDict == [a \in {} |-> List(None, None)]

\* item.get(key) on a record: None for a key the dict does not hold.
get(item, key) == IF item[key] = Absent THEN None ELSE item[key]

\* json.dump of the cache dict: every value is written as a list.
json_dump_cache(cache) ==
    [a \in DOMAIN cache |-> List(Lat(cache[a]), Lon(cache[a]))]

\* Files on disk: absent, present with unparseable content, or JSON.
AbsentFile == [st |-> "absent", val |-> <<>>]
CorruptFile == [st |-> "corrupt", val |-> <<>>]
JsonFile(v) == [st |-> "json", val |-> v]

\* load_json(path, default): the default when the file is absent or when
\* json.load raises JSONDecodeError.  The result says whether an exception
\* left the function.
load_json_raises(file, default) ==
    IF file.st = "json" THEN [raised |-> FALSE, value |-> file.val]
    ELSE IF file.st = "corrupt" THEN [raised |-> TRUE, value |-> default]
    ELSE [raised |-> FALSE, value |-> default]
load_json(file, default) ==
    IF file.st = "json" THEN [raised |-> FALSE, value |-> file.val]
    ELSE [raised |-> FALSE, value |-> default]

\* museums.py lines 53-59: the records of earlier runs, [] when museums.json is
\* absent or unparseable.
load_existing(file) == IF file.st = "json" THEN file.val ELSE <<>>

\* save_json(path, obj): the whole value overwrites the file.
save_json(obj) == JsonFile(obj)

\* ------------------------------------------------------------ the listing
\* What the detail page of card c yields: the <h1> text, the address block's
\* text after its links, icons and spans are removed ("" when nothing is
\* left, "Unknown" when the page has no address block).
NameOf(c) ==
    CASE c = 1 -> "A Museum" [] c = 2 -> "B Museum" [] OTHER -> "Unknown"
LocationOf(c) ==
    CASE c = 1 -> "Main St 1" [] c = 2 -> "Dam 1" [] c = 3 -> "Main St 1"
      [] OTHER -> "Unknown"

\* What a visit of card c's page may yield as the address: the page of
\* card 2 is the one whose address block may hold no text.
Locations(c) == IF c = 2 THEN {LocationOf(c), ""} ELSE {LocationOf(c)}
LinkOf(c) ==
    CASE c = 1 -> "https://www.museum.nl/a"
      [] c = 2 -> "https://www.museum.nl/b"
      [] OTHER -> "https://www.museum.nl/c"

museum_data(c, location) ==
    [name |-> NameOf(c), thumbnail |-> "thumb.jpg", link |-> LinkOf(c),
     location |-> location, latitude |-> Absent, longitude |-> Absent]

\* ------------------------------------------------- the resolution service
\* Candidates Nominatim returns: latitude and longitude as strings, or a
\* match object without them.
Candidates ==
    {[lat |-> "52.1", lon |-> "5.2"], [lat |-> "0", lon |-> "0"],
     [display_name |-> "x"]}

\* What session.get can do: raise a RequestException (exc), or return a
\* response with a status code and a JSON body.
Responses ==
    {[exc |-> TRUE, status_code |-> 0, data |-> <<>>]}
    \cup {[exc |-> FALSE, status_code |-> s, data |-> <<>>] : s \in {429, 500}}
    \cup {[exc |-> FALSE, status_code |-> 200, data |-> d] :
            d \in {<<>>} \cup {<<c>> : c \in Candidates}}

\* float(s) on the strings the service sends, as the repr json.dump writes.
float(s) ==
    CASE s = "52.1" -> "52.1" [] s = "5.2" -> "5.2" [] s = "0" -> "0.0"

Returned(v) == [raised |-> FALSE, value |-> v]
Raised == [raised |-> TRUE, value |-> Tuple(None, None)]

\* _geocode_nominatim from raise_for_status on, for the response it ends up
\* with: an HTTP error is a RequestException and is caught; a body without
\* "lat"/"lon" raises KeyError, which is not.
parse_response(resp) ==
    IF resp.exc THEN Returned(Tuple(None, None))
    ELSE IF resp.status_code >= 400 THEN Returned(Tuple(None, None))
    ELSE IF resp.data = <<>> THEN Returned(Tuple(None, None))
    ELSE IF ~ ({"lat", "lon"} \subseteq DOMAIN resp.data[1]) THEN Raised
    ELSE Returned(Tuple(float(resp.data[1].lat), float(resp.data[1].lon)))

\* ------------------------------------------------------------------ state
VARIABLES
    museumsFile,    \* museums.json
    cacheFile,      \* geocode_cache.json
    pc,             \* where the running script is ("idle": none runs)
    runs,           \* runs started so far
    exit,           \* how the last run ended
    museums,        \* the running script's record list
    i,              \* the running script's loop index
    driver,         \* the Harvester's browser session
    pages,          \* pages revealed by the pagination loop
    outcomes,       \* per card handled: the address extracted, or "error"
    geocode_cache,  \* the Enricher's cache dict
    cluster,        \* indices of the records handed to the map
    qualified,      \* the lookup is at its country-qualified query
    resps,          \* responses received for the current query
    rawResps,       \* responses the raw query of the lookup received
    coords,         \* what geocode_address returns
    lookup,         \* the path the current geocode_address call took
    nreq,           \* requests the current geocode_address call issued
    slept,          \* a sleep has elapsed since the last request
    loadedFrom,     \* what geocode_cache.json was when the run loaded it
    resolved,       \* per address, the outcomes stored in the cache so far
    snap            \* the files as the last complete Enricher run left them

vars ==
    <<museumsFile, cacheFile, pc, runs, exit, museums, i, driver, pages,
      outcomes, geocode_cache, cluster, qualified, resps, rawResps, coords,
      lookup, nreq, slept, loadedFrom, resolved, snap>>

files == <<museumsFile, cacheFile>>
harvesterVars == <<driver, pages, outcomes>>
lookupVars == <<qualified, resps, rawResps, coords, lookup, nreq>>
enricherVars == <<geocode_cache, cluster, loadedFrom>>

NoSnap ==
    [valid |-> FALSE, museums |-> AbsentFile, cache |-> AbsentFile, runs |-> 0]

\* The memory of a script that is not running.
NoMemory ==
    /\ museums' = <<>>
    /\ i' = 0
    /\ pages' = 0
    /\ outcomes' = <<>>
    /\ geocode_cache' = EmptyDict
    /\ cluster' = {}
    /\ qualified' = FALSE
    /\ resps' = <<>>
    /\ rawResps' = <<>>
    /\ coords' = Tuple(None, None)
    /\ lookup' = "none"
    /\ nreq' = 0
    /\ slept' = TRUE
    /\ loadedFrom' = "none"

\* museums.json as a Harvester run that started without the file and
\* extracted the first n cards leaves it.
RECURSIVE Harvested(_)
Harvested(n) ==
    IF n = 0 THEN {<<>>}
    ELSE {Append(list, museum_data(n, location)) :
            list \in Harvested(n - 1), location \in Locations(n)}
HarvestedFiles == {save_json(list) : list \in Harvested(NumCards)}

\* Before a run: museums.json is absent, unparseable, or the work of an
\* earlier harvest; geocode_cache.json is absent or unparseable.
Init ==
    /\ museumsFile \in {AbsentFile, CorruptFile} \cup HarvestedFiles
    /\ cacheFile \in {AbsentFile, CorruptFile}
    /\ pc = "idle"
    /\ runs = 0
    /\ exit = "none"
    /\ museums = <<>>
    /\ i = 0
    /\ driver = "none"
    /\ pages = 0
    /\ outcomes = <<>>
    /\ geocode_cache = EmptyDict
    /\ cluster = {}
    /\ qualified = FALSE
    /\ resps = <<>>
    /\ rawResps = <<>>
    /\ coords = Tuple(None, None)
    /\ lookup = "none"
    /\ nreq = 0
    /\ slept = TRUE
    /\ loadedFrom = "none"
    /\ resolved = [a \in {} |-> 0]
    /\ snap = NoSnap

\* -------------------------------------------------- Harvester (museums.py)
\* Lines 13-29: the browser session is acquired and the listing is opened.
HarvesterStart ==
    /\ pc = "idle"
    /\ runs < MaxRuns
    /\ runs' = runs + 1
    /\ exit' = "none"
    /\ driver' = "open"
    /\ pc' = "h_paginate"
    /\ UNCHANGED <<files, museums, i, pages, outcomes, enricherVars,
                   lookupVars, slept, resolved, snap>>

\* Lines 32-38: the button is found and clicked, one more page is revealed.
LoadMore ==
    /\ pc = "h_paginate"
    /\ pages < MaxPages
    /\ pages' = pages + 1
    /\ UNCHANGED <<files, pc, runs, exit, museums, i, driver, outcomes,
                   enricherVars, lookupVars, slept, resolved, snap>>

\* Lines 34-36, 42-43: the button is there but the click is intercepted.
ClickIntercepted ==
    /\ pc = "h_paginate"
    /\ pages < MaxPages
    /\ pc' = "h_retry"
    /\ UNCHANGED <<files, runs, exit, museums, i, harvesterVars,
                   enricherVars, lookupVars, slept, resolved, snap>>

\* Lines 44-45: after the two seconds the loop goes round again; nothing
\* counts the rounds.
RetryClick ==
    /\ pc = "h_retry"
    /\ pc' = "h_paginate"
    /\ UNCHANGED <<files, runs, exit, museums, i, harvesterVars,
                   enricherVars, lookupVars, slept, resolved, snap>>

\* Lines 26-48: a browser call raises something the loop does not catch
\* (the page does not load, the script call fails); the script ends there,
\* before line 109.
HarvesterRaises ==
    /\ pc = "h_paginate"
    /\ pc' = "idle"
    /\ exit' = "exception"
    /\ NoMemory
    /\ UNCHANGED <<files, runs, driver, resolved, snap>>

\* Lines 39-59: the button is gone, the loop ends; the cards are collected
\* and the records saved by earlier runs are loaded ([] when museums.json is
\* absent or unparseable).
NoMoreToLoad ==
    /\ pc = "h_paginate"
    /\ pages = MaxPages
    /\ museums' = load_existing(museumsFile)
    /\ i' = 1
    /\ pc' = "h_cards"
    /\ UNCHANGED <<files, runs, exit, harvesterVars, enricherVars,
                   lookupVars, slept, resolved, snap>>

\* Line 98: the record is appended, whatever the list already holds.
append_unless_listed(list, rec) ==
    IF \E k \in 1..Len(list) : list[k].link = rec.link
    THEN list ELSE Append(list, rec)
append_record(list, rec) == Append(list, rec)

\* Lines 63, 106-107: after a card, failed or not, the loop takes the next.
next_card_abort(k) == NumCards + 1
next_card(k) == k + 1

\* Lines 63-104: card i is scraped, its record appended and the whole list
\* saved.
ScrapeCard ==
    /\ pc = "h_cards"
    /\ i <= NumCards
    /\ \E location \in Locations(i) :
         /\ museums' = append_record(museums, museum_data(i, location))
         /\ outcomes' = Append(outcomes, location)
    /\ museumsFile' = save_json(museums')
    /\ i' = next_card(i)
    /\ snap' = NoSnap
    /\ UNCHANGED <<cacheFile, pc, runs, exit, driver, pages, enricherVars,
                   lookupVars, slept, resolved>>

\* Lines 63-97, 106-107: scraping card i raises before the record is built;
\* the error is printed and the loop goes on with the next card.
ScrapeCardFails ==
    /\ pc = "h_cards"
    /\ i <= NumCards
    /\ outcomes' = Append(outcomes, "error")
    /\ i' = next_card(i)
    /\ UNCHANGED <<files, pc, runs, exit, museums, driver, pages,
                   enricherVars, lookupVars, slept, resolved, snap>>

\* Lines 109-111: the session is released and the script ends.
HarvesterQuit ==
    /\ pc = "h_cards"
    /\ i > NumCards
    /\ driver' = "quit"
    /\ pc' = "idle"
    /\ exit' = "returned"
    /\ NoMemory
    /\ UNCHANGED <<files, runs, resolved, snap>>

\* -------------------------------------- Enricher (make_museums_map.py)
Snapshot(n) ==
    [valid |-> TRUE, museums |-> museumsFile, cache |-> cacheFile, runs |-> n]

\* Lines 105-112: the records and the cache are loaded; with no records the
\* script prints a warning and returns.
EnricherStart ==
    /\ pc = "idle"
    /\ runs < MaxRuns
    /\ runs' = runs + 1
    /\ LET m == load_json(museumsFile, <<>>)
           c == load_json(cacheFile, EmptyDict)
       IN  IF m.raised \/ (m.value # <<>> /\ c.raised)
           THEN /\ NoMemory
                /\ exit' = "exception"
                /\ UNCHANGED <<pc, snap>>
           ELSE IF m.value = <<>>
           THEN /\ NoMemory
                /\ exit' = "returned"
                /\ snap' = Snapshot(snap.runs + 1)
                /\ UNCHANGED pc
           ELSE /\ museums' = m.value
                /\ exit' = "none"
                /\ geocode_cache' = c.value
                /\ loadedFrom' = cacheFile.st
                /\ i' = 1
                /\ pc' = "e_loop"
                /\ UNCHANGED <<pages, outcomes, cluster, lookupVars, slept,
                               snap>>
    /\ UNCHANGED <<files, driver, resolved>>

\* Line 123: the record lacks a coordinate.
needs_geocode_always(lat, lon) == TRUE
needs_geocode(lat, lon) == lat = None \/ lon = None

\* Line 45: the cache holds the address.
in_cache_never(address, cache) == FALSE
in_cache(address, cache) == address \in DOMAIN cache

\* Line 46: the entry the cache holds for the address.
cached_entry_not_found(cache, key) == Tuple(None, None)
cached_entry(cache, key) == cache[key]

\* Line 51: the cache dict is written to geocode_cache.json.
persist_cache_skipped(cache) == cacheFile
persist_cache(cache) == save_json(json_dump_cache(cache))

\* Line 127: the record list is written to museums.json.
persist_records(list) == save_json(list)

\* Line 129: the record is not handed to the map.
skip_marker_never(lat, lon) == FALSE
skip_marker(lat, lon) == lat = None \/ lon = None

\* Lines 47-49: the query string of a lookup, the raw address and then the
\* address qualified by the country.
Query(addr, fallback) == IF fallback THEN addr \o ", Netherlands" ELSE addr

\* Line 50: the key the outcome is cached under.
cache_key_query(addr, query) == query
cache_key(addr, query) == addr

item == museums[i]
address == item.location

NoLookup ==
    /\ qualified' = FALSE
    /\ resps' = <<>>
    /\ rawResps' = <<>>
    /\ coords' = Tuple(None, None)
    /\ lookup' = "none"
    /\ nreq' = 0

\* Lines 117-140, a record that carries both coordinates: no lookup, the
\* record goes to the map.
MarkLocated ==
    /\ pc = "e_loop"
    /\ i <= Len(museums)
    /\ ~ needs_geocode(get(item, "latitude"), get(item, "longitude"))
    /\ cluster' =
         IF skip_marker(get(item, "latitude"), get(item, "longitude"))
         THEN cluster ELSE cluster \cup {i}
    /\ i' = i + 1
    /\ NoLookup
    /\ UNCHANGED <<files, pc, runs, exit, museums, harvesterVars, geocode_cache,
                   loadedFrom, slept, resolved, snap>>

\* Lines 42-44: geocode_address of an empty address returns (None, None).
GeocodeNoAddress ==
    /\ pc = "e_loop"
    /\ i <= Len(museums)
    /\ needs_geocode(get(item, "latitude"), get(item, "longitude"))
    /\ address = ""
    /\ coords' = Tuple(None, None)
    /\ lookup' = "noaddr"
    /\ qualified' = FALSE
    /\ resps' = <<>>
    /\ rawResps' = <<>>
    /\ nreq' = 0
    /\ pc' = "e_assign"
    /\ UNCHANGED <<files, runs, exit, museums, i, harvesterVars, enricherVars,
                   slept, resolved, snap>>

\* Lines 45-46: geocode_address returns the cached entry.
GeocodeCacheHit ==
    /\ pc = "e_loop"
    /\ i <= Len(museums)
    /\ needs_geocode(get(item, "latitude"), get(item, "longitude"))
    /\ address # ""
    /\ in_cache(address, geocode_cache)
    /\ coords' = cached_entry(geocode_cache, address)
    /\ lookup' = "hit"
    /\ qualified' = FALSE
    /\ resps' = <<>>
    /\ rawResps' = <<>>
    /\ nreq' = 0
    /\ pc' = "e_assign"
    /\ UNCHANGED <<files, runs, exit, museums, i, harvesterVars, enricherVars,
                   slept, resolved, snap>>

\* Line 47: a cache miss; the raw address is about to be queried.
GeocodeCacheMiss ==
    /\ pc = "e_loop"
    /\ i <= Len(museums)
    /\ needs_geocode(get(item, "latitude"), get(item, "longitude"))
    /\ address # ""
    /\ ~ in_cache(address, geocode_cache)
    /\ coords' = Tuple(None, None)
    /\ lookup' = "miss"
    /\ qualified' = FALSE
    /\ resps' = <<>>
    /\ rawResps' = <<>>
    /\ nreq' = 0
    /\ pc' = "e_get"
    /\ UNCHANGED <<files, runs, exit, museums, i, harvesterVars, enricherVars,
                   slept, resolved, snap>>

\* Line 62: the response is retried when it is the first one of the query
\* and its status is 429.
retry_on_every_429(resp, attempt) == ~ resp.exc /\ resp.status_code = 429
retry_on(resp, attempt) ==
    attempt = 1 /\ ~ resp.exc /\ resp.status_code = 429

\* Line 48: the query found nothing.
not_found_always(pair) == TRUE
not_found_never(pair) == FALSE
not_found(pair) == pair = Tuple(None, None)

\* Lines 47-49: what geocode_address does with the outcome of a query.
\* An exception that _geocode_nominatim does not catch leaves main: the run
\* ends there.
Conclude(result) ==
    IF result.raised
    THEN /\ pc' = "idle"
         /\ exit' = "exception"
         /\ NoMemory
    ELSE IF not_found(result.value) /\ ~ qualified
    THEN /\ qualified' = TRUE
         /\ rawResps' = resps'
         /\ pc' = "e_get"
         /\ UNCHANGED <<exit, museums, i, pages, outcomes, enricherVars,
                        coords, lookup>>
    ELSE /\ coords' = result.value
         /\ rawResps' = IF qualified THEN rawResps ELSE resps'
         /\ pc' = "e_store"
         /\ UNCHANGED <<exit, museums, i, pages, outcomes, enricherVars,
                        qualified, lookup>>

\* Lines 61-73: the request of a query is sent.
Get ==
    /\ pc = "e_get"
    /\ \E resp \in Responses :
         IF retry_on(resp, 1)
         THEN /\ resps' = <<resp>>
              /\ nreq' = nreq + 1
              /\ slept' = FALSE
              /\ pc' = "e_backoff"
              /\ UNCHANGED <<exit, museums, i, pages, outcomes, enricherVars,
                             qualified, rawResps, coords, lookup>>
         ELSE IF parse_response(resp).raised
         THEN Conclude(parse_response(resp))
         ELSE /\ resps' = <<resp>>
              /\ nreq' = nreq + 1
              /\ slept' = FALSE
              /\ Conclude(parse_response(resp))
    /\ UNCHANGED <<files, runs, driver, resolved, snap>>

\* Line 63: the backoff sleep.
Backoff ==
    /\ pc = "e_backoff"
    /\ slept' = TRUE
    /\ pc' = "e_retry"
    /\ UNCHANGED <<files, runs, exit, museums, i, harvesterVars, enricherVars,
                   lookupVars, resolved, snap>>

\* Lines 64-73: the request is sent a second time.
GetRetry ==
    /\ pc = "e_retry"
    /\ \E resp \in Responses :
         IF retry_on(resp, Len(resps) + 1)
         THEN /\ resps' = Append(resps, resp)
              /\ nreq' = nreq + 1
              /\ slept' = FALSE
              /\ pc' = "e_backoff"
              /\ UNCHANGED <<exit, museums, i, pages, outcomes, enricherVars,
                             qualified, rawResps, coords, lookup>>
         ELSE IF parse_response(resp).raised
         THEN Conclude(parse_response(resp))
         ELSE /\ resps' = Append(resps, resp)
              /\ nreq' = nreq + 1
              /\ slept' = FALSE
              /\ Conclude(parse_response(resp))
    /\ UNCHANGED <<files, runs, driver, resolved, snap>>

\* Lines 50-51: the outcome is cached under the raw address and the cache is
\* saved.
Store ==
    /\ pc = "e_store"
    /\ geocode_cache' =
         (cache_key(address, Query(address, qualified)) :> coords)
           @@ geocode_cache
    /\ cacheFile' = persist_cache(geocode_cache')
    /\ resolved' =
         (address :> (IF address \in DOMAIN resolved
                      THEN resolved[address] + 1 ELSE 1)) @@ resolved
    /\ pc' = "e_sleep"
    /\ UNCHANGED <<museumsFile, runs, exit, museums, i, harvesterVars, cluster,
                   loadedFrom, lookupVars, slept, snap>>

\* Line 52: the delay after a lookup that went to the service.
Sleep ==
    /\ pc = "e_sleep"
    /\ slept' = TRUE
    /\ pc' = "e_assign"
    /\ UNCHANGED <<files, runs, exit, museums, i, harvesterVars, enricherVars,
                   lookupVars, resolved, snap>>

\* Lines 125-126: the coordinates are written into the record.
set_latitude_only(m, k, pair) == [m EXCEPT ![k].latitude = Lat(pair)]
set_coordinates(m, k, pair) ==
    [m EXCEPT ![k].latitude = Lat(pair), ![k].longitude = Lon(pair)]

\* Lines 124-140: the record takes what geocode_address returned, the record
\* list is saved, and the record goes to the map when it is located.
Assign ==
    /\ pc = "e_assign"
    /\ museums' = set_coordinates(museums, i, coords)
    /\ museumsFile' = persist_records(museums')
    /\ cluster' =
         IF skip_marker(Lat(coords), Lon(coords))
         THEN cluster ELSE cluster \cup {i}
    /\ i' = i + 1
    /\ pc' = "e_loop"
    /\ UNCHANGED <<cacheFile, runs, exit, harvesterVars, geocode_cache,
                   loadedFrom, lookupVars, slept, resolved, snap>>

\* Lines 142-186: every record was handled; the map is saved and main
\* returns.
Finish ==
    /\ pc = "e_loop"
    /\ i > Len(museums)
    /\ pc' = "idle"
    /\ exit' = "returned"
    /\ snap' = Snapshot(snap.runs + 1)
    /\ NoMemory
    /\ UNCHANGED <<files, runs, driver, resolved>>

\* The running script is killed.
Crash ==
    /\ pc # "idle"
    /\ pc' = "idle"
    /\ exit' = "killed"
    /\ NoMemory
    /\ UNCHANGED <<files, runs, driver, resolved, snap>>

\* open(path, "w") empties the file and json.dump then writes the text piece
\* by piece: a script killed in between leaves a file that json.load cannot
\* parse.
truncated == CorruptFile

\* Lines 98-102 of museums.py: card i was scraped and appended, and the
\* script is killed while it writes museums.json.
CrashSavingMuseums ==
    /\ pc = "h_cards"
    /\ i <= NumCards
    /\ museumsFile' = truncated
    /\ pc' = "idle"
    /\ exit' = "killed"
    /\ snap' = NoSnap
    /\ NoMemory
    /\ UNCHANGED <<cacheFile, runs, driver, resolved>>

\* Line 51 (save_json, lines 37-39): the script is killed while it writes
\* geocode_cache.json; the outcomes the file held are gone with it.
CrashSavingCache ==
    /\ pc = "e_store"
    /\ cacheFile' = truncated
    /\ resolved' = [a \in {} |-> 0]
    /\ pc' = "idle"
    /\ exit' = "killed"
    /\ snap' = NoSnap
    /\ NoMemory
    /\ UNCHANGED <<museumsFile, runs, driver>>

\* Line 127 (save_json, lines 37-39): the script is killed while it writes
\* museums.json.
CrashSavingRecords ==
    /\ pc = "e_assign"
    /\ museumsFile' = truncated
    /\ pc' = "idle"
    /\ exit' = "killed"
    /\ snap' = NoSnap
    /\ NoMemory
    /\ UNCHANGED <<cacheFile, runs, driver, resolved>>

\* The step is a kill in the middle of a write.
TornWrite == CrashSavingMuseums \/ CrashSavingCache \/ CrashSavingRecords

Next ==
    \/ HarvesterStart
    \/ LoadMore
    \/ ClickIntercepted
    \/ RetryClick
    \/ HarvesterRaises
    \/ NoMoreToLoad
    \/ ScrapeCard
    \/ ScrapeCardFails
    \/ HarvesterQuit
    \/ EnricherStart
    \/ MarkLocated
    \/ GeocodeNoAddress
    \/ GeocodeCacheHit
    \/ GeocodeCacheMiss
    \/ Get
    \/ Backoff
    \/ GetRetry
    \/ Store
    \/ Sleep
    \/ Assign
    \/ Finish
    \/ Crash
    \/ CrashSavingMuseums
    \/ CrashSavingCache
    \/ CrashSavingRecords

Spec == Init /\ [][Next]_vars

\* A step of a running Harvester. The script is one thread that nothing
\* suspends: while it runs and is not killed, it takes its next step.
HarvesterStep ==
    \/ LoadMore
    \/ ClickIntercepted
    \/ RetryClick
    \/ NoMoreToLoad
    \/ ScrapeCard
    \/ ScrapeCardFails
    \/ HarvesterQuit

FairSpec == Spec /\ WF_vars(HarvesterStep)

\* ----------------------------------------------------------------- claims
InEnricher ==
    pc \in {"e_loop", "e_get", "e_backoff", "e_retry", "e_store", "e_sleep",
            "e_assign"}

\* The step calls geocode_address for record i (line 124).
CallsGeocode ==
    /\ pc = "e_loop"
    /\ i <= Len(museums)
    /\ get(item, "latitude") = None \/ get(item, "longitude") = None
    /\ pc' # "idle"

\* The step sends a request to the resolution service.
SendsRequest == nreq' = nreq + 1

\* The response carries a candidate with a latitude and a longitude.
Found(resp) ==
    /\ ~ resp.exc
    /\ resp.status_code = 200
    /\ resp.data # <<>>
    /\ {"lat", "lon"} \subseteq DOMAIN resp.data[1]

Throttled(resp) == ~ resp.exc /\ resp.status_code = 429

\* The coordinates of a found response, as a tuple and as a JSON list.
FoundTuple(resp) ==
    Tuple(float(resp.data[1].lat), float(resp.data[1].lon))
FoundList(resp) ==
    List(float(resp.data[1].lat), float(resp.data[1].lon))

\* A record's coordinate is null or missing.
Null(v) == v \in {None, Absent}

\* C1: geocode_address of an address that has a cache entry returns that
\* entry, sends no request and leaves the cache, in memory and on disk,
\* as it was.
C1_CacheHitReturnsEntry ==
    [][(CallsGeocode /\ address \in DOMAIN geocode_cache)
         => /\ pc' = "e_assign"
            /\ coords' = geocode_cache[address]
            /\ nreq' = 0
            /\ geocode_cache' = geocode_cache
            /\ cacheFile' = cacheFile]_vars

C1_Witness ==
    /\ pc = "e_assign"
    /\ lookup = "hit"
    /\ coords = geocode_cache[address]
    /\ Lat(coords) = "52.1"
    /\ nreq = 0

\* C2: once an Enricher run has completed, as long as no Harvester run has
\* changed the record list and no run was killed in the middle of a write,
\* a further Enricher run sends no request and leaves museums.json and
\* geocode_cache.json as the first run left them.
C2_EnricherIdempotent ==
    snap.valid
      => /\ museumsFile = snap.museums
         /\ cacheFile = snap.cache
         /\ nreq = 0
         /\ pc \notin {"e_get", "e_backoff", "e_retry", "e_store", "e_sleep"}

C2_Witness ==
    /\ snap.valid
    /\ snap.runs = 2
    /\ pc = "idle"
    /\ exit = "returned"
    /\ museumsFile.st = "json"
    /\ \E k \in 1..Len(museumsFile.val) :
         /\ museumsFile.val[k].location # ""
         /\ museumsFile.val[k].latitude = None
    /\ cacheFile.st = "json"

\* C3: no step of the scripts changes or removes an entry of the persisted
\* cache; no request is sent in the lookup of an address the persisted cache
\* holds; a record without coordinates whose address is cached as not found
\* stays without coordinates; and while the cache file lives an outcome is
\* stored at most once per address.  (A kill in the middle of a write is no
\* step of the scripts: it destroys the file, see C14, C19 and C20.)
C3_CacheEntriesPermanent ==
    [][~ TornWrite
         => /\ \A a \in DOMAIN cacheFile.val :
                 /\ cacheFile'.st = "json"
                 /\ a \in DOMAIN cacheFile'.val
                 /\ cacheFile'.val[a] = cacheFile.val[a]
            /\ SendsRequest => address \notin DOMAIN cacheFile.val
            /\ \A k \in 1..Len(museumsFile.val) :
                 ( /\ Null(museumsFile.val[k].latitude)
                   /\ Null(museumsFile.val[k].longitude)
                   /\ museumsFile.val[k].location \in DOMAIN cacheFile.val
                   /\ cacheFile.val[museumsFile.val[k].location]
                        = List(None, None) )
                 => /\ Null(museumsFile'.val[k].latitude)
                    /\ Null(museumsFile'.val[k].longitude)
            /\ \A a \in DOMAIN resolved' : resolved'[a] <= 1]_vars

C3_Witness ==
    /\ pc = "e_assign"
    /\ lookup = "hit"
    /\ coords = List(None, None)
    /\ loadedFrom = "json"
    /\ resolved[address] = 1

\* C4: a record that carries both coordinates is not passed to
\* geocode_address (no cache lookup, no request), and no step of the scripts
\* changes such a record in museums.json.
C4_LocatedRecordSkipped ==
    [][/\ ( /\ pc = "e_loop"
            /\ i <= Len(museums)
            /\ get(item, "latitude") # None
            /\ get(item, "longitude") # None
            /\ pc' # "idle" )
          => /\ pc' = "e_loop"
             /\ i' = i + 1
             /\ lookup' = "none"
             /\ nreq' = 0
             /\ museums' = museums
             /\ files' = files
       /\ ~ TornWrite
            => \A k \in 1..Len(museumsFile.val) :
                 ( /\ ~ Null(museumsFile.val[k].latitude)
                   /\ ~ Null(museumsFile.val[k].longitude) )
                 => /\ k <= Len(museumsFile'.val)
                    /\ museumsFile'.val[k] = museumsFile.val[k]]_vars

C4_Witness ==
    /\ pc = "e_loop"
    /\ i > 1
    /\ lookup = "none"
    /\ (i - 1) \in cluster
    /\ museums[i - 1].latitude = "52.1"
    /\ museumsFile.val[i - 1] = museums[i - 1]

\* C5: a query is sent at most twice, the second time only after a 429 and
\* the backoff sleep; a 429 followed by a found response gives that
\* response's coordinates as the outcome; a second 429 is final (not found).
C5_OneRetryOn429 ==
    /\ Len(resps) <= 2
    /\ Len(resps) = 2 => Throttled(resps[1])
    /\ pc = "e_backoff" => (Len(resps) = 1 /\ Throttled(resps[1]))
    /\ pc = "e_retry" => (Len(resps) = 1 /\ Throttled(resps[1]) /\ slept)
    /\ (Len(resps) = 2 /\ Found(resps[2]))
         => /\ pc \in {"e_store", "e_sleep", "e_assign", "e_loop"}
            /\ coords = FoundTuple(resps[2])
    /\ (Len(resps) = 2 /\ Throttled(resps[2]) /\ pc # "e_get")
         => /\ pc \in {"e_store", "e_sleep", "e_assign", "e_loop"}
            /\ qualified
            /\ coords = Tuple(None, None)

C5_Witness ==
    /\ pc = "e_store"
    /\ Len(resps) = 2
    /\ Throttled(resps[1])
    /\ Found(resps[2])
    /\ coords = Tuple("52.1", "5.2")

\* C6: no request is sent to the resolution service unless a sleep has
\* elapsed since the request before it.
C6_DelayBetweenRequests == [][SendsRequest => slept]_vars

\* C7: no step of an Enricher run that has begun handling its records ends
\* the run with an exception.
C7_NoFatalCondition == [][InEnricher => exit' # "exception"]_vars

\* The step starts an Enricher run.
StartsEnricher == pc = "idle" /\ runs' = runs + 1 /\ pc' # "h_paginate"

\* C8: an Enricher run over a non-empty record list that finds
\* geocode_cache.json absent or unparseable starts with the empty cache and
\* goes on; until the first outcome is stored the cache in memory is empty,
\* and from then on geocode_cache.json is the JSON of the cache in memory.
C8_CorruptCacheIsEmptyCache ==
    [][/\ ( /\ StartsEnricher
            /\ museumsFile.st = "json"
            /\ museumsFile.val # <<>>
            /\ cacheFile.st \in {"absent", "corrupt"} )
          => /\ pc' = "e_loop"
             /\ exit' = "none"
             /\ geocode_cache' = EmptyDict
             /\ museums' = museumsFile.val
       /\ (InEnricher' /\ cacheFile'.st # "json")
            => geocode_cache' = EmptyDict
       /\ (InEnricher' /\ cacheFile'.st = "json")
            => cacheFile'.val = json_dump_cache(geocode_cache')]_vars

C8_Witness ==
    /\ pc = "e_assign"
    /\ loadedFrom = "corrupt"
    /\ lookup = "miss"
    /\ coords = Tuple("52.1", "5.2")
    /\ cacheFile = JsonFile((address :> List("52.1", "5.2")))

\* C9: every record of museums.json has both coordinates or neither.
C9_NoPartialPair ==
    \A k \in 1..Len(museumsFile.val) :
        Null(museumsFile.val[k].latitude) <=> Null(museumsFile.val[k].longitude)

C9_Witness ==
    /\ museumsFile.st = "json"
    /\ \E k \in 1..Len(museumsFile.val) :
         /\ museumsFile.val[k].latitude = "52.1"
         /\ museumsFile.val[k].longitude = "5.2"
    /\ \E k \in 1..Len(museumsFile.val) :
         /\ museumsFile.val[k].latitude = None
         /\ museumsFile.val[k].longitude = None
    /\ \E k \in 1..Len(museumsFile.val) :
         /\ museumsFile.val[k].latitude = Absent
         /\ museumsFile.val[k].longitude = Absent

\* C10: when the first response to the raw query of a cache miss carries
\* coordinates, the lookup sends that one request and no fallback query, the
\* outcome is those coordinates, the record is saved with them, and the cache
\* is saved with them under the raw address: as the only entry when the cache
\* was empty.
C10_PositivePath ==
    [][/\ ( /\ pc = "e_get"
            /\ ~ qualified
            /\ SendsRequest
            /\ Found(resps'[1]) )
          => /\ pc' = "e_store"
             /\ ~ qualified'
             /\ nreq' = 1
             /\ coords' = FoundTuple(resps'[1])
       /\ ( /\ pc = "e_store"
            /\ ~ qualified
            /\ Len(resps) = 1
            /\ Found(resps[1])
            /\ pc' # "idle" )
          => /\ cacheFile'.st = "json"
             /\ cacheFile'.val[address] = FoundList(resps[1])
             /\ nreq' = 1
             /\ geocode_cache = EmptyDict
                  => cacheFile'.val = (address :> FoundList(resps[1]))
       /\ ( /\ pc = "e_assign"
            /\ lookup = "miss"
            /\ ~ qualified
            /\ Len(resps) = 1
            /\ Found(resps[1])
            /\ pc' # "idle" )
          => /\ museumsFile'.st = "json"
             /\ museumsFile'.val[i].latitude = Lat(FoundList(resps[1]))
             /\ museumsFile'.val[i].longitude = Lon(FoundList(resps[1]))
             /\ museumsFile'.val[i].location = address
             /\ nreq' = 1
             /\ cacheFile' = cacheFile]_vars

C10_Witness ==
    /\ pc = "e_loop"
    /\ i = 2
    /\ lookup = "miss"
    /\ nreq = 1
    /\ ~ qualified
    /\ loadedFrom = "absent"
    /\ museumsFile.val[1].location = "Main St 1"
    /\ museumsFile.val[1].latitude = "52.1"
    /\ museumsFile.val[1].longitude = "5.2"
    /\ cacheFile = JsonFile(("Main St 1" :> List("52.1", "5.2")))

\* The response is a 200 with an empty candidate list.
EmptyResult(resp) ==
    ~ resp.exc /\ resp.status_code = 200 /\ resp.data = <<>>

Last(s) == s[Len(s)]

\* The lookup in progress sent the raw query and the qualified one, and the
\* service answered both with an empty candidate list.
BothEmpty ==
    /\ qualified
    /\ rawResps # <<>> /\ EmptyResult(Last(rawResps))
    /\ resps # <<>> /\ EmptyResult(Last(resps))

\* The records the run has handled so far that carry both coordinates.
Located ==
    {k \in 1..(i - 1) : ~ Null(get(museums[k], "latitude"))
                          /\ ~ Null(get(museums[k], "longitude"))}

\* C11: when the raw query and the qualified query both come back empty, the
\* cache, in memory and on disk, gains the entry raw address -> [null, null]
\* and nothing else, the record is saved with null coordinates and is not
\* handed to the map; and throughout an Enricher run the records handed to
\* the map are those handled so far that carry both coordinates, while every
\* handled record stays in the list.
C11_NegativePath ==
    [][/\ (pc = "e_store" /\ BothEmpty /\ pc' = "e_sleep")
            => /\ address \notin DOMAIN geocode_cache
               /\ geocode_cache'
                    = (address :> Tuple(None, None)) @@ geocode_cache
               /\ cacheFile'.st = "json"
               /\ cacheFile'.val = json_dump_cache(geocode_cache')
               /\ cacheFile'.val[address] = List(None, None)
       /\ (pc = "e_assign" /\ BothEmpty /\ pc' = "e_loop")
            => /\ museumsFile'.st = "json"
               /\ museumsFile'.val[i].latitude = None
               /\ museumsFile'.val[i].longitude = None
               /\ i \notin cluster'
       /\ (InEnricher /\ pc' # "idle")
            => /\ cluster' = Located'
               /\ Len(museums') = Len(museums)
               /\ \A k \in 1..Len(museums) :
                    museums'[k].link = museums[k].link]_vars

C11_Witness ==
    /\ pc = "e_loop"
    /\ i = 2
    /\ BothEmpty
    /\ cacheFile.st = "json"
    /\ cacheFile.val = ("Main St 1" :> List(None, None))
    /\ museumsFile.val[1].latitude = None
    /\ museumsFile.val[1].longitude = None
    /\ cluster = {}

\* C12: a Harvester that is in its pagination loop leaves the loop: the
\* rounds in which the click is intercepted come to an end.
C12_PaginationTerminates ==
    (pc \in {"h_paginate", "h_retry"})
      ~> (pc \notin {"h_paginate", "h_retry"})

InHarvester == pc \in {"h_paginate", "h_retry", "h_cards"}

\* C13: every step that ends a Harvester run, by returning or by an
\* exception, leaves the browser session released.
C13_SessionReleased ==
    [][(InHarvester /\ pc' = "idle" /\ exit' \in {"returned", "exception"})
         => driver' # "open"]_vars

\* The records of the cards among the first n that the run extracted, in
\* listing order.
RECURSIVE Extracted(_)
Extracted(n) ==
    IF n = 0 THEN <<>>
    ELSE IF outcomes[n] = "error" THEN Extracted(n - 1)
    ELSE Append(Extracted(n - 1), museum_data(n, outcomes[n]))

ExtractedSoFar == Extracted(Len(outcomes))

\* The last n elements of a sequence.
Tail_n(s, n) == SubSeq(s, Len(s) - n + 1, Len(s))

\* The step extracts card i, or fails to.
ExtractsCard ==
    /\ pc = "h_cards"
    /\ Len(outcomes') = Len(outcomes) + 1
    /\ outcomes'[i] # "error"
FailsCard ==
    /\ pc = "h_cards"
    /\ Len(outcomes') = Len(outcomes) + 1
    /\ outcomes'[i] = "error"

\* The step ends the run by a kill.
Killed == pc # "idle" /\ pc' = "idle" /\ exit' = "killed"

\* C14: the step that extracts a card writes to museums.json the records the
\* run loaded followed by every record it has extracted, in order; and when
\* a Harvester run is killed in its card loop, what a restart loads from
\* museums.json is that list, up to the entry in progress.
C14_HarvesterWriteThrough ==
    [][/\ ExtractsCard
            => /\ museumsFile'
                    = JsonFile(Append(museums, museum_data(i, outcomes'[i])))
               /\ Tail_n(museumsFile'.val, Len(ExtractedSoFar'))
                    = ExtractedSoFar'
       /\ (pc = "h_cards" /\ Killed)
            => load_existing(museumsFile') = museums]_vars

\* C15: a card whose scraping fails adds no record and leaves museums.json
\* as it was, and the loop goes on with the next card; a run handles every
\* card before it returns, and the records it has appended are those of the
\* cards it extracted, in listing order.
C15_FailureIsolation ==
    [][/\ FailsCard
            => /\ museums' = museums
               /\ files' = files
               /\ pc' = "h_cards"
               /\ i' = i + 1
       /\ ExtractsCard
            => /\ museums' = Append(museums, museum_data(i, outcomes'[i]))
               /\ pc' = "h_cards"
               /\ i' = i + 1
       /\ (pc = "h_cards" /\ pc' = "h_cards")
            => /\ Len(outcomes') = i' - 1
               /\ Tail_n(museums', Len(ExtractedSoFar')) = ExtractedSoFar'
       /\ (pc = "h_cards" /\ pc' = "idle" /\ exit' = "returned")
            => /\ Len(outcomes) = NumCards
               /\ Tail_n(museums, Len(ExtractedSoFar)) = ExtractedSoFar
               /\ load_existing(museumsFile') = museums]_vars

C15_Witness ==
    /\ pc = "h_cards"
    /\ outcomes = <<"error", "Dam 1">>
    /\ museums = <<museum_data(2, "Dam 1")>>
    /\ museumsFile = JsonFile(museums)

\* C16: no step of the scripts removes a record from museums.json or moves
\* it: the list a script would load never gets shorter and every record
\* keeps its position, name, address and link; a card the Harvester extracts
\* is appended whatever the list holds, so a second harvest of the listing
\* stores every card a second time.  (A kill in the middle of a write is no
\* step of the scripts: see C14.)
C16_RecordsNeverDeleted ==
    [][/\ ~ TornWrite
            => /\ Len(load_existing(museumsFile'))
                    >= Len(load_existing(museumsFile))
               /\ \A k \in 1..Len(load_existing(museumsFile)) :
                    /\ museumsFile'.val[k].name = museumsFile.val[k].name
                    /\ museumsFile'.val[k].location
                         = museumsFile.val[k].location
                    /\ museumsFile'.val[k].link = museumsFile.val[k].link
       /\ ExtractsCard
            => museumsFile'.val
                 = Append(load_existing(museumsFile),
                          museum_data(i, outcomes'[i]))]_vars

C16_Witness ==
    /\ pc = "idle"
    /\ exit = "returned"
    /\ museumsFile.st = "json"
    /\ Len(museumsFile.val) = 2 * NumCards
    /\ \A k \in 1..NumCards :
         /\ museumsFile.val[k].link = LinkOf(k)
         /\ museumsFile.val[NumCards + k].link = LinkOf(k)

\* The lookup in progress sent the raw query and the qualified one, and the
\* last request of each ended in a transport failure.
BothFailed ==
    /\ qualified
    /\ rawResps # <<>> /\ Last(rawResps).exc
    /\ resps # <<>> /\ Last(resps).exc

\* The step receives a response that is a transport failure.
TransportFailure ==
    /\ pc \in {"e_get", "e_retry"}
    /\ Len(resps') = Len(resps) + 1 \/ (pc = "e_get" /\ Len(resps') = 1)
    /\ Last(resps').exc

\* C17: a transport failure ends no run: the lookup goes on to its fallback
\* query or to storing its outcome; when the raw query and the fallback
\* both end in one, the outcome is not found, the entry [null, null] is
\* cached and saved under the raw address, the record is saved without
\* coordinates, and no later lookup sends a request for that address.
C17_TransportFailureIsNotFound ==
    [][/\ TransportFailure
            => /\ exit' = exit
               /\ pc' = (IF qualified THEN "e_store" ELSE "e_get")
       /\ (pc = "e_store" /\ BothFailed /\ pc' = "e_sleep")
            => /\ coords = Tuple(None, None)
               /\ cacheFile'.st = "json"
               /\ DOMAIN cacheFile'.val = DOMAIN geocode_cache \cup {address}
               /\ cacheFile'.val[address] = List(None, None)
       /\ (pc = "e_assign" /\ BothFailed /\ pc' = "e_loop")
            => /\ museumsFile'.st = "json"
               /\ museumsFile'.val[i].latitude = None
               /\ museumsFile'.val[i].longitude = None
       /\ (CallsGeocode /\ address \in DOMAIN cacheFile.val
             /\ cacheFile.val[address] = List(None, None))
            => /\ pc' = "e_assign"
               /\ nreq' = 0
               /\ Lat(coords') = None
               /\ Lon(coords') = None]_vars

C17_Witness ==
    /\ pc = "e_loop"
    /\ i = 2
    /\ BothFailed
    /\ cacheFile.val = ("Main St 1" :> List(None, None))
    /\ museumsFile.val[1].latitude = None

\* The step receives the final response of a query and geocode_address goes
\* on (no backoff, no exception).
QueryReturns ==
    /\ pc \in {"e_get", "e_retry"}
    /\ pc' \in {"e_get", "e_store"}

\* The addresses of the listing.
Addresses == UNION {Locations(c) : c \in 1..NumCards}

\* C18: in a lookup that missed the cache, the qualified query is sent when
\* and only when the raw query found nothing, and it is sent once: whatever
\* it returns is the outcome.  The outcome is stored under the raw address:
\* the cache gains that key and no other, every key of the cache is an
\* address of a record, and geocode_cache.json holds the outcome when
\* geocode_address returns.
C18_FallbackOnceRawKey ==
    [][/\ (QueryReturns /\ ~ qualified)
            => /\ qualified' <=> ~ Found(Last(resps'))
               /\ pc' = (IF qualified' THEN "e_get" ELSE "e_store")
               /\ rawResps' = resps'
       /\ (QueryReturns /\ qualified)
            => /\ pc' = "e_store"
               /\ qualified'
               /\ rawResps' = rawResps
               /\ coords' = (IF Found(Last(resps'))
                              THEN FoundTuple(Last(resps'))
                              ELSE Tuple(None, None))
       /\ (pc = "e_store" /\ pc' = "e_sleep")
            => /\ DOMAIN geocode_cache' = DOMAIN geocode_cache \cup {address}
               /\ geocode_cache'[address] = coords
               /\ cacheFile' = JsonFile(json_dump_cache(geocode_cache'))
       /\ DOMAIN geocode_cache' \subseteq Addresses
       /\ DOMAIN cacheFile'.val \subseteq Addresses
       /\ (pc' = "e_assign" /\ lookup' = "miss")
            => /\ cacheFile'.st = "json"
               /\ address' \in DOMAIN cacheFile'.val
               /\ cacheFile'.val[address']
                    = List(Lat(coords'), Lon(coords'))]_vars

C18_Witness ==
    /\ pc = "e_assign"
    /\ lookup = "miss"
    /\ qualified
    /\ ~ Found(Last(rawResps))
    /\ Found(Last(resps))
    /\ nreq = 2
    /\ DOMAIN cacheFile.val = {address}
    /\ cacheFile.val[address] = FoundList(Last(resps))

\* Record k of museums.json carries both coordinates.
PersistedLocated(k) ==
    /\ ~ Null(museumsFile.val[k].latitude)
    /\ ~ Null(museumsFile.val[k].longitude)

\* Every located record of museums.json has its address in
\* geocode_cache.json, with the record's coordinates.
StoresAgree ==
    \A k \in 1..Len(museumsFile.val) :
        PersistedLocated(k)
          => /\ museumsFile.val[k].location \in DOMAIN cacheFile.val
             /\ cacheFile.val[museumsFile.val[k].location]
                  = List(museumsFile.val[k].latitude,
                         museumsFile.val[k].longitude)

\* C19: when the Enricher moves on to the next record, museums.json holds
\* the record list with the outcome of the record just handled and
\* geocode_cache.json holds the cache; and when an Enricher run is killed,
\* museums.json still holds every record, those handled before the record
\* in progress with their outcome.
C19_EnricherWriteThrough ==
    [][/\ (pc = "e_assign" /\ pc' = "e_loop")
            => /\ museumsFile' = JsonFile(museums')
               /\ lookup = "miss"
                    => cacheFile' = JsonFile(json_dump_cache(geocode_cache'))
       /\ (InEnricher /\ Killed)
            => /\ museumsFile'.st = "json"
               /\ Len(museumsFile'.val) = Len(museums)
               /\ \A k \in 1..(i - 1) : museumsFile'.val[k] = museums[k]
               /\ \A a \in DOMAIN cacheFile.val :
                    a \in DOMAIN cacheFile'.val]_vars

\* C20: at every point, every located record of museums.json has its
\* address in geocode_cache.json with the same coordinates; and no request
\* is sent for an address that a located record of museums.json carries.
C20_CrashConsistency ==
    [][/\ StoresAgree'
       /\ SendsRequest
            => \A k \in 1..Len(museumsFile.val) :
                 museumsFile.val[k].location = address
                   => ~ PersistedLocated(k)]_vars

====
